---- MODULE Spec2Model ----
(***************************************************************************)
(* Model of the asynchronous download-job subsystem of src/src/index.ts:   *)
(* the job store (getJobStatus / setJobStatus over Redis or the in-memory  *)
(* map), the submit handler (POST /v1/download/initiate), the status       *)
(* handler (GET /v1/download/status/:jobId), the BullMQ worker pool and    *)
(* the job body processDownloadJob with its progress interval.             *)
(*                                                                         *)
(* Granularity.  Every await on real I/O (a Redis command, queue.add, an   *)
(* S3 call, a timer) is a point where other handlers, workers and timer    *)
(* callbacks may run, so each such await ends a step.  With the in-memory  *)
(* store getJobStatus/setJobStatus touch the Map synchronously and their   *)
(* awaits only yield to the microtask queue: no timer or I/O callback can  *)
(* run in between, so those calls stay inside the step that makes them.    *)
(***************************************************************************)
EXTENDS Integers, Sequences, FiniteSets, TLC

\* ---------------------------------------------------------------- bounds
MaxJobs == 1
MaxTicks == 1
MaxInFlight == 1
MaxClock == 2
MaxRedeliveries == 1
MaxPolls == 2

\* ------------------------------------------------------ program constants
MinFileId == 10000
MaxFileId == 100000000
MinBatch == 1
MaxBatch == 1000
Concurrency == 5
ProgressStep == 10
ProgressCap == 90
ProgressDone == 100
IntervalDivisor == 10
MockDivisor == 7
MockSize == 1000
Retention == 86400

\* ------------------------------------------------------------ optionals
\* A nullable value: <<>> is null, <<v>> is the value v.
Null == <<>>

Some(v) == <<v>>

IsNull(o) == o = <<>>

Val(o) == o[1]

\* ------------------------------------------------------------- variables
VARIABLES
  ui,        \* the DownloadJobs component: its job list and the polls in flight
  env,       \* the delay settings read from the environment at startup
  down,      \* gracefulShutdown: its position and what it has closed so far
  redis,     \* env.REDIS_URL is set: redisConnection and downloadQueue exist
  bucket,    \* env.S3_BUCKET_NAME is set (otherwise mock mode)
  lim,       \* the scenario: number of submissions and interval firings explored
  now,       \* the wall clock read by Date.now() / new Date(), in milliseconds
  stores,    \* the two store backends: Redis keys job:<id>, their expiry times,
             \* and inMemoryJobs
  queue,     \* the BullMQ wait list of {jobId, fileId} work items
  nextId,    \* number of job identifiers generated so far
  sub,       \* per job: the submit handler that created it
  ex,        \* per job: the processDownloadJob execution
  ticks,     \* progress-interval callbacks that have fired and not finished
  resp       \* the HTTP response produced by the step just taken, if any

vars == <<ui, env, down, redis, bucket, lim, now, stores, queue, nextId, sub, ex, ticks, resp>>

JobIds == 1..lim.jobs

\* ----------------------------------------------------------- job records
JobResult(fileId, status, progress, downloadUrl, size, processingTimeMs, message, createdAt, updatedAt) ==
  [file_id |-> fileId, status |-> status, progress |-> progress,
   downloadUrl |-> downloadUrl, size |-> size,
   processingTimeMs |-> processingTimeMs, message |-> message,
   createdAt |-> createdAt, updatedAt |-> updatedAt]

QueuedRecord(fileId, t) ==
  JobResult(fileId, "queued", 0, Null, Null, Null,
            <<"Job queued for processing">>, t, t)

ProcessingRecord(fileId, t) ==
  JobResult(fileId, "processing", 0, Null, Null, Null,
            <<"Processing download...">>, t, t)

CompletedRecord(fileId, downloadUrl, size, ptime, createdAt, t) ==
  JobResult(fileId, "completed", ProgressDone, downloadUrl, size, Some(ptime),
            <<"Download ready after", ptime>>, createdAt, t)

\* A failure branch that puts the job back in line for another try.
FailedRecordRetry(fileId, ptime, createdAt, t) ==
  JobResult(fileId, "queued", 0, Null, Null, Null,
            <<"Job queued for processing">>, createdAt, t)

FailedRecord(fileId, ptime, createdAt, t) ==
  JobResult(fileId, "failed", ProgressDone, Null, Null, Some(ptime),
            <<"File not found after", ptime>>, createdAt, t)

\* ------------------------------------------------------------- job store
Put(m, k, v) == [x \in (DOMAIN m) \cup {k} |-> IF x = k THEN v ELSE m[x]]

\* JSON.stringify of a JobResult: its properties as name/value pairs, in the
\* order the record was built, and JSON.parse of such a text.  Every value is
\* a finite number, a string or null, which JSON writes and reads back as is.
Properties ==
  <<"file_id", "status", "progress", "downloadUrl", "size", "processingTimeMs",
    "message", "createdAt", "updatedAt">>

JSONstringify(status) ==
  [i \in 1..Len(Properties) |-> <<Properties[i], status[Properties[i]]>>]

JSONparse(data) ==
  [name \in {data[i][1] : i \in 1..Len(data)} |->
     data[CHOOSE i \in 1..Len(data) : data[i][1] = name][2]]

\* Redis answers for a key until its expiry time is reached.
Unexpired(s) == {k \in DOMAIN s.redisKV : s.redisEX[k] > now}

Backend(s) ==
  IF redis THEN [k \in Unexpired(s) |-> JSONparse(s.redisKV[k])] ELSE s.inMemoryJobs

\* A read that looks the job up under a key the writes never use.
getJobStatusOtherKey(s, jobId) ==
  IF redis
    THEN Null
    ELSE IF jobId \in DOMAIN s.inMemoryJobs THEN Some(s.inMemoryJobs[jobId]) ELSE Null

getJobStatus(s, jobId) ==
  IF jobId \in DOMAIN Backend(s) THEN Some(Backend(s)[jobId]) ELSE Null

\* A write that always goes to the process-local map.
setJobStatusLocal(s, jobId, status) ==
  [s EXCEPT !.inMemoryJobs = Put(@, jobId, status)]

\* A store that merges a record into the one it holds: a null property of the
\* new record leaves the stored value in place.
setJobStatusMerge(s, jobId, status) ==
  LET held == IF jobId \in DOMAIN Backend(s) THEN Backend(s)[jobId] ELSE status
      merged == [name \in DOMAIN status |->
                   IF name \in {"downloadUrl", "size", "processingTimeMs"}
                        /\ IsNull(status[name])
                     THEN held[name]
                     ELSE status[name]]
  IN IF redis
       THEN [s EXCEPT !.redisKV = Put(@, jobId, JSONstringify(merged)),
                      !.redisEX = Put(@, jobId, now + Retention * 1000)]
       ELSE [s EXCEPT !.inMemoryJobs = Put(@, jobId, merged)]

setJobStatus(s, jobId, status) ==
  IF redis
    THEN [s EXCEPT !.redisKV = Put(@, jobId, JSONstringify(status)),
                   !.redisEX = Put(@, jobId, now + Retention * 1000)]
    ELSE [s EXCEPT !.inMemoryJobs = Put(@, jobId, status)]

\* The records a client can read: the backend selected at startup.
Jobs == Backend(stores)

\* ------------------------------------------------------ request validation
\* A JSON number n + (half ? 0.5 : 0).
Num(n) == [n |-> n, half |-> FALSE]

Half(n) == [n |-> n, half |-> TRUE]

ValidFileId(x) ==
  /\ ~x.half
  /\ x.n >= MinFileId
  /\ x.n <= MaxFileId

\* A schema that validates the batch size and the first identifier only.
SchemaFirstOnly(file_ids) ==
  /\ Len(file_ids) >= MinBatch
  /\ Len(file_ids) <= MaxBatch
  /\ ValidFileId(file_ids[1])

DownloadInitiateRequestSchema(file_ids) ==
  /\ Len(file_ids) >= MinBatch
  /\ Len(file_ids) <= MaxBatch
  /\ \A i \in 1..Len(file_ids) : ValidFileId(file_ids[i])

Oversize == [i \in 1..(MaxBatch + 1) |-> Num(70000)]

Batches ==
  { <<>>, <<Num(70001)>>, <<Num(70000), Num(100000000)>>,
    <<Num(9999)>>, <<Num(70000), Num(9999)>>, <<Num(100000001)>>,
    <<Half(70000)>>, <<Num(70001), Half(70000)>>, <<Num(70000), Num(-70000)>>,
    Oversize }

\* ----------------------------------------------------------------- state
NoSub == [pc |-> "idle", fileId |-> 0, total |-> 0]

\* pc: where processDownloadJob stands; deliveries: how often the worker has
\* been handed the job's work item; interval: progressInterval is set and not
\* cleared; delayMs: the delay drawn; sleepStart: when sleep(delayMs) was called.
NoEx ==
  [pc |-> "idle", fileId |-> 0, startTime |-> 0, progress |-> 0, nticks |-> 0,
   available |-> FALSE, s3Key |-> Null, size |-> Null, ptime |-> 0,
   downloadUrl |-> Null, pending |-> Null,
   deliveries |-> 0, interval |-> FALSE, delayMs |-> 0, sleepStart |-> 0]

\* DOWNLOAD_DELAY_ENABLED, DOWNLOAD_DELAY_MIN_MS, DOWNLOAD_DELAY_MAX_MS
DelaySettings(enabled, min, max) ==
  [DOWNLOAD_DELAY_ENABLED |-> enabled,
   DOWNLOAD_DELAY_MIN_MS |-> min, DOWNLOAD_DELAY_MAX_MS |-> max]

DefaultEnv == DelaySettings(TRUE, 1, 1)

NoDown == [pc |-> "running", closed |-> <<>>, failed |-> {}]

\* jobs: the component's job list, as the status it holds for each jobId;
\* polls: the queryFn calls that have not returned.
NoUi == [jobs |-> <<>>, polls |-> {}]

NoResp == [op |-> "none", code |-> 0, jobId |-> 0, total |-> 0, body |-> Null]

InitWith(jobs, nticks, backends, buckets) ==
  /\ ui = NoUi
  /\ env = DefaultEnv
  /\ down = NoDown
  /\ redis \in backends
  /\ bucket \in buckets
  /\ lim = [jobs |-> jobs, ticks |-> nticks]
  /\ now = 0
  /\ stores = [redisKV |-> <<>>, redisEX |-> <<>>, inMemoryJobs |-> <<>>]
  /\ queue = <<>>
  /\ nextId = 0
  /\ sub = [j \in 1..jobs |-> NoSub]
  /\ ex = [j \in 1..jobs |-> NoEx]
  /\ ticks = {}
  /\ resp = NoResp

Init == InitWith(MaxJobs, MaxTicks, BOOLEAN, BOOLEAN)

\* ------------------------------------------------------------- pure helpers
Min(a, b) == IF a <= b THEN a ELSE b

Abs(n) == IF n < 0 THEN 0 - n ELSE n

RECURSIVE Digits(_)
\* String(n) for a non-negative integer: its decimal digits, most significant first.
Digits(n) == IF n < 10 THEN <<n>> ELSE Digits(n \div 10) \o <<n % 10>>

\* Math.floor(Math.random() * (max - min + 1)) + min for Math.random() in
\* [0, 1), or 0 when the delay is switched off.  With max < min the product is
\* in (max - min + 1, 0].
getRandomDelay ==
  LET min == env.DOWNLOAD_DELAY_MIN_MS
      max == env.DOWNLOAD_DELAY_MAX_MS
  IN IF ~env.DOWNLOAD_DELAY_ENABLED
       THEN {0}
       ELSE IF max - min + 1 >= 1 THEN min..max ELSE (max + 1)..min

\* A key built from the last five digits of the identifier.
sanitizeS3KeyShort(fileId) ==
  <<"downloads/">> \o Digits(Abs(fileId) % 100000) \o <<".zip">>

\* fileId is an integer here, so Math.floor(Math.abs(fileId)) is Abs(fileId).
sanitizeS3Key(fileId) == <<"downloads/">> \o Digits(Abs(fileId)) \o <<".zip">>

\* A probe whose failure outcome still names the key it looked for.
checkS3AvailabilityKeyed(fileId) ==
  IF ~bucket
    THEN { [available |-> fileId % MockDivisor = 0,
            s3Key |-> Some(sanitizeS3Key(fileId)),
            size |-> IF fileId % MockDivisor = 0 THEN Some(MockSize) ELSE Null] }
    ELSE { [available |-> TRUE, s3Key |-> Some(sanitizeS3Key(fileId)),
            size |-> Some(MockSize)],
           [available |-> FALSE, s3Key |-> Some(sanitizeS3Key(fileId)), size |-> Null] }

\* The outcomes of the HEAD request / of the mock.
checkS3Availability(fileId) ==
  IF ~bucket
    THEN { [available |-> fileId % MockDivisor = 0,
            s3Key |-> IF fileId % MockDivisor = 0
                        THEN Some(sanitizeS3Key(fileId)) ELSE Null,
            size |-> IF fileId % MockDivisor = 0 THEN Some(MockSize) ELSE Null] }
    ELSE { [available |-> TRUE, s3Key |-> Some(sanitizeS3Key(fileId)),
            size |-> Some(MockSize)],
           [available |-> TRUE, s3Key |-> Some(sanitizeS3Key(fileId)),
            size |-> Null],
           [available |-> FALSE, s3Key |-> Null, size |-> Null] }

\* The outcomes of the presigner / of the mock: a URL for the key, or null.
generatePresignedUrl(s3Key) ==
  IF ~bucket
    THEN { Some(<<"https://storage.example.com/", s3Key>>) }
    ELSE { Some(<<"signed", s3Key>>), Null }

\* ------------------------------------------------------------------ submit
\* {jobId, status: "queued", totalFileIds} with HTTP status 200
InitiateResponse(jobId, total) ==
  [op |-> "submit", code |-> 200, jobId |-> jobId, total |-> total,
   body |-> Some([status |-> "queued"])]

\* POST /v1/download/initiate with a body the schema rejects: 400, handler not run.
Reject(file_ids) ==
  /\ ~DownloadInitiateRequestSchema(file_ids)
  /\ resp' = [op |-> "submit", code |-> 400, jobId |-> 0, total |-> 0, body |-> Null]
  /\ UNCHANGED <<ui, env, down, redis, bucket, lim, now, stores, queue, nextId, sub, ex, ticks>>

\* A fallback branch that awaits processDownloadJob before it responds.
BackgroundAwaited(s, jobId, fileId, total) ==
  /\ stores' = setJobStatus(s, jobId, ProcessingRecord(fileId, now))
  /\ sub' = [sub EXCEPT ![jobId] =
               [pc |-> "awaiting", fileId |-> fileId, total |-> total]]
  /\ \E delayMs \in getRandomDelay :
       ex' = [ex EXCEPT ![jobId] =
                [NoEx EXCEPT !.pc = "sleeping", !.fileId = fileId, !.startTime = now,
                             !.interval = TRUE, !.delayMs = delayMs,
                             !.sleepStart = now]]
  /\ resp' = NoResp

\* A fallback branch that hands the job body to a later turn of the event loop.
BackgroundDeferred(s, jobId, fileId, total) ==
  /\ stores' = s
  /\ sub' = [sub EXCEPT ![jobId] =
               [pc |-> "responded", fileId |-> fileId, total |-> total]]
  /\ ex' = [ex EXCEPT ![jobId] =
              [NoEx EXCEPT !.pc = "start", !.fileId = fileId, !.startTime = now,
                           !.pending = Some(ProcessingRecord(fileId, now))]]
  /\ resp' = InitiateResponse(jobId, total)

\* The fallback branch: processDownloadJob is called and not awaited.  It runs
\* up to its first timer (the SET of the processing record is a Map.set), then
\* the handler returns the response.
Background(s, jobId, fileId, total) ==
  /\ stores' = setJobStatus(s, jobId, ProcessingRecord(fileId, now))
  /\ sub' = [sub EXCEPT ![jobId] =
               [pc |-> "responded", fileId |-> fileId, total |-> total]]
  /\ \E delayMs \in getRandomDelay :
       ex' = [ex EXCEPT ![jobId] =
                [NoEx EXCEPT !.pc = "sleeping", !.fileId = fileId, !.startTime = now,
                             !.interval = TRUE, !.delayMs = delayMs,
                             !.sleepStart = now]]
  /\ resp' = InitiateResponse(jobId, total)

\* A handler that names every job with the same identifier.
InitiateSameId(file_ids) ==
  /\ DownloadInitiateRequestSchema(file_ids)
  /\ nextId < lim.jobs
  /\ LET jobId == 1
         fileId == file_ids[1].n
         s1 == setJobStatus(stores, jobId, QueuedRecord(fileId, now))
     IN /\ nextId' = nextId + 1
        /\ IF redis
             THEN /\ stores' = s1
                  /\ sub' = [sub EXCEPT ![jobId] =
                               [pc |-> "written", fileId |-> fileId,
                                total |-> Len(file_ids)]]
                  /\ UNCHANGED ex
                  /\ resp' = NoResp
             ELSE Background(s1, jobId, fileId, Len(file_ids))
  /\ UNCHANGED <<ui, env, down, redis, bucket, lim, now, queue, ticks>>

\* The handler up to its first await on real I/O.  With Redis that is the SET of
\* the queued record.  Without Redis setJobStatus is a Map.set and the handler
\* goes on into the fallback branch.
Initiate(file_ids) ==
  /\ DownloadInitiateRequestSchema(file_ids)
  /\ nextId < lim.jobs
  /\ LET jobId == nextId + 1
         fileId == file_ids[1].n
         s1 == setJobStatus(stores, jobId, QueuedRecord(fileId, now))
     IN /\ nextId' = jobId
        /\ IF redis
             THEN /\ stores' = s1
                  /\ sub' = [sub EXCEPT ![jobId] =
                               [pc |-> "written", fileId |-> fileId,
                                total |-> Len(file_ids)]]
                  /\ UNCHANGED ex
                  /\ resp' = NoResp
             ELSE Background(s1, jobId, fileId, Len(file_ids))
  /\ UNCHANGED <<ui, env, down, redis, bucket, lim, now, queue, ticks>>

\* An enqueue that adds one work item per identifier of the batch.
EnqueueEach(jobId) ==
  /\ sub[jobId].pc = "written"
  /\ queue' = queue \o [i \in 1..sub[jobId].total |->
                          [jobId |-> jobId, fileId |-> sub[jobId].fileId]]
  /\ sub' = [sub EXCEPT ![jobId].pc = "enqueued"]
  /\ UNCHANGED <<ui, env, down, redis, bucket, lim, now, stores, nextId, ex, ticks>>
  /\ resp' = NoResp

\* await downloadQueue.add("download", {jobId, fileId})
Enqueue(jobId) ==
  /\ sub[jobId].pc = "written"
  /\ queue' = Append(queue, [jobId |-> jobId, fileId |-> sub[jobId].fileId])
  /\ sub' = [sub EXCEPT ![jobId].pc = "enqueued"]
  /\ UNCHANGED <<ui, env, down, redis, bucket, lim, now, stores, nextId, ex, ticks>>
  /\ resp' = NoResp

\* return c.json({jobId, status: "queued", totalFileIds}, 200)
Respond(jobId) ==
  /\ sub[jobId].pc = "enqueued"
  /\ sub' = [sub EXCEPT ![jobId].pc = "responded"]
  /\ resp' = InitiateResponse(jobId, sub[jobId].total)
  /\ UNCHANGED <<ui, env, down, redis, bucket, lim, now, stores, queue, nextId, ex, ticks>>

\* ------------------------------------------------------------------ status
\* A status read that hands a finished job's record out once and drops it.
GetStatusOnce(jobId) ==
  /\ LET jobStatus == getJobStatus(stores, jobId)
     IN /\ resp' = IF IsNull(jobStatus)
                     THEN [op |-> "status", code |-> 404, jobId |-> jobId,
                           total |-> 0, body |-> Null]
                     ELSE [op |-> "status", code |-> 200, jobId |-> jobId,
                           total |-> 0, body |-> jobStatus]
        /\ stores' = IF ~IsNull(jobStatus) /\ Val(jobStatus).progress = ProgressDone
                       THEN [redisKV |-> [k \in DOMAIN stores.redisKV \ {jobId} |->
                                            stores.redisKV[k]],
                             redisEX |-> stores.redisEX,
                             inMemoryJobs |-> [k \in DOMAIN stores.inMemoryJobs \ {jobId} |->
                                                 stores.inMemoryJobs[k]]]
                       ELSE stores
  /\ UNCHANGED <<ui, env, down, redis, bucket, lim, now, queue, nextId, sub, ex, ticks>>

\* GET /v1/download/status/:jobId
GetStatus(jobId) ==
  /\ LET jobStatus == getJobStatus(stores, jobId)
     IN resp' = IF IsNull(jobStatus)
                  THEN [op |-> "status", code |-> 404, jobId |-> jobId,
                        total |-> 0, body |-> Null]
                  ELSE [op |-> "status", code |-> 200, jobId |-> jobId,
                        total |-> 0, body |-> jobStatus]
  /\ UNCHANGED <<ui, env, down, redis, bucket, lim, now, stores, queue, nextId, sub, ex, ticks>>

\* ------------------------------------------------------------ worker pool
Active == {j \in JobIds : ex[j].pc \notin {"idle", "done", "failed"}}

\* A job body that sets its interval before it writes the processing record.
DequeueTimerFirst ==
  /\ redis
  /\ queue # <<>>
  /\ Cardinality(Active) < Concurrency
  /\ LET item == Head(queue)
     IN ex' = [ex EXCEPT ![item.jobId] =
                 [NoEx EXCEPT !.pc = "start", !.fileId = item.fileId,
                              !.startTime = now, !.interval = TRUE,
                              !.deliveries = ex[item.jobId].deliveries + 1,
                              !.pending = Some(ProcessingRecord(item.fileId, now))]]
  /\ queue' = Tail(queue)
  /\ UNCHANGED <<ui, env, down, redis, bucket, lim, now, stores, nextId, sub, ticks>>
  /\ resp' = NoResp

\* The BullMQ worker takes the oldest waiting item while it runs fewer than
\* `concurrency` processors, and calls processDownloadJob, which runs up to the
\* SET of the processing record.
Dequeue ==
  /\ redis
  /\ queue # <<>>
  /\ Cardinality(Active) < Concurrency
  /\ LET item == Head(queue)
     IN ex' = [ex EXCEPT ![item.jobId] =
                 [NoEx EXCEPT !.pc = "start", !.fileId = item.fileId,
                              !.startTime = now,
                              !.deliveries = ex[item.jobId].deliveries + 1,
                              !.pending = Some(ProcessingRecord(item.fileId, now))]]
  /\ queue' = Tail(queue)
  /\ UNCHANGED <<ui, env, down, redis, bucket, lim, now, stores, nextId, sub, ticks>>
  /\ resp' = NoResp

\* The SET of the processing record lands; setInterval and sleep are started.
WriteProcessing(jobId) ==
  /\ ex[jobId].pc = "start"
  /\ stores' = setJobStatus(stores, jobId, Val(ex[jobId].pending))
  /\ \E delayMs \in getRandomDelay :
       ex' = [ex EXCEPT ![jobId].pc = "sleeping", ![jobId].pending = Null,
                        ![jobId].interval = TRUE, ![jobId].delayMs = delayMs,
                        ![jobId].sleepStart = now]
  /\ UNCHANGED <<ui, env, down, redis, bucket, lim, now, queue, nextId, sub, ticks>>
  /\ resp' = NoResp

\* -------------------------------------------------------- progress interval
InFlight(jobId) == {t \in ticks : t.jobId = jobId}

TickRecord(currentStatus, progress, t) ==
  [currentStatus EXCEPT !.progress = progress, !.updatedAt = t]

\* An interval whose counter is not capped.
TickUncapped(jobId) ==
  /\ ex[jobId].interval
  /\ ex[jobId].nticks < Min(lim.ticks, IntervalDivisor)
  /\ Cardinality(InFlight(jobId)) < MaxInFlight
  /\ LET progress == ex[jobId].progress + ProgressStep
         currentStatus == getJobStatus(stores, jobId)
     IN /\ ex' = [ex EXCEPT ![jobId].progress = progress,
                            ![jobId].nticks = @ + 1]
        /\ IF redis
             THEN /\ ticks' = ticks \cup {[jobId |-> jobId, phase |-> "read",
                                          progress |-> progress, rec |-> Null]}
                  /\ UNCHANGED stores
             ELSE /\ stores' =
                       IF ~IsNull(currentStatus) /\ Val(currentStatus).status = "processing"
                         THEN setJobStatus(stores, jobId,
                                TickRecord(Val(currentStatus), progress, now))
                         ELSE stores
                  /\ UNCHANGED ticks
  /\ UNCHANGED <<ui, env, down, redis, bucket, lim, now, queue, nextId, sub>>
  /\ resp' = NoResp

\* The interval fires: the counter advances and the callback's async body
\* starts.  With Redis it stops at the GET; with the in-memory map it reads and
\* conditionally writes at once.
Tick(jobId) ==
  /\ ex[jobId].interval
  /\ ex[jobId].nticks < Min(lim.ticks, IntervalDivisor)
  /\ Cardinality(InFlight(jobId)) < MaxInFlight
  /\ LET progress == Min(ex[jobId].progress + ProgressStep, ProgressCap)
         currentStatus == getJobStatus(stores, jobId)
     IN /\ ex' = [ex EXCEPT ![jobId].progress = progress,
                            ![jobId].nticks = @ + 1]
        /\ IF redis
             THEN /\ ticks' = ticks \cup {[jobId |-> jobId, phase |-> "read",
                                          progress |-> progress, rec |-> Null]}
                  /\ UNCHANGED stores
             ELSE /\ stores' =
                       IF ~IsNull(currentStatus) /\ Val(currentStatus).status = "processing"
                         THEN setJobStatus(stores, jobId,
                                TickRecord(Val(currentStatus), progress, now))
                         ELSE stores
                  /\ UNCHANGED ticks
  /\ UNCHANGED <<ui, env, down, redis, bucket, lim, now, queue, nextId, sub>>
  /\ resp' = NoResp

\* A callback that writes whatever record its GET returned.
TickReadUnguarded(t) ==
  /\ t \in ticks
  /\ t.phase = "read"
  /\ LET currentStatus == getJobStatus(stores, t.jobId)
     IN ticks' =
          IF ~IsNull(currentStatus)
            THEN (ticks \ {t}) \cup
                   {[t EXCEPT !.phase = "write",
                              !.rec = Some(TickRecord(Val(currentStatus), t.progress, now))]}
            ELSE ticks \ {t}
  /\ UNCHANGED <<ui, env, down, redis, bucket, lim, now, stores, queue, nextId, sub, ex>>
  /\ resp' = NoResp

\* The callback's GET returns; if the record is processing the SET is issued.
TickRead(t) ==
  /\ t \in ticks
  /\ t.phase = "read"
  /\ LET currentStatus == getJobStatus(stores, t.jobId)
     IN ticks' =
          IF ~IsNull(currentStatus) /\ Val(currentStatus).status = "processing"
            THEN (ticks \ {t}) \cup
                   {[t EXCEPT !.phase = "write",
                              !.rec = Some(TickRecord(Val(currentStatus), t.progress, now))]}
            ELSE ticks \ {t}
  /\ UNCHANGED <<ui, env, down, redis, bucket, lim, now, stores, queue, nextId, sub, ex>>
  /\ resp' = NoResp

\* A callback whose write merges its two fields into the record now stored.
TickWriteMerge(t) ==
  /\ t \in ticks
  /\ t.phase = "write"
  /\ stores' =
       LET currentStatus == getJobStatus(stores, t.jobId)
       IN IF IsNull(currentStatus)
            THEN setJobStatus(stores, t.jobId, Val(t.rec))
            ELSE setJobStatus(stores, t.jobId,
                   TickRecord(Val(currentStatus), t.progress, Val(t.rec).updatedAt))
  /\ ticks' = ticks \ {t}
  /\ UNCHANGED <<ui, env, down, redis, bucket, lim, now, queue, nextId, sub, ex>>
  /\ resp' = NoResp

\* The callback's SET lands.
TickWrite(t) ==
  /\ t \in ticks
  /\ t.phase = "write"
  /\ stores' = setJobStatus(stores, t.jobId, Val(t.rec))
  /\ ticks' = ticks \ {t}
  /\ UNCHANGED <<ui, env, down, redis, bucket, lim, now, queue, nextId, sub, ex>>
  /\ resp' = NoResp

\* Math.max(1000, delayMs / 10), as setInterval takes it (whole milliseconds).
progressIntervalMs(delayMs) ==
  IF delayMs \div IntervalDivisor > 1000 THEN delayMs \div IntervalDivisor ELSE 1000

\* When the interval's next firing and the sleep's timeout fall due.
TickDue(jobId) ==
  ex[jobId].sleepStart + (ex[jobId].nticks + 1) * progressIntervalMs(ex[jobId].delayMs)

SleepDue(jobId) == ex[jobId].sleepStart + ex[jobId].delayMs

\* The interval fires against the clock: no earlier than it is due, and never
\* ahead of the sleep's timeout when that falls due first (timers run in the
\* order of their expiry, and clearInterval follows the timeout at once).
TickTimed(jobId) ==
  /\ ex[jobId].interval
  /\ now >= TickDue(jobId)
  /\ TickDue(jobId) <= SleepDue(jobId)
  /\ Cardinality(InFlight(jobId)) < MaxInFlight
  /\ LET progress == Min(ex[jobId].progress + ProgressStep, ProgressCap)
         currentStatus == getJobStatus(stores, jobId)
     IN /\ ex' = [ex EXCEPT ![jobId].progress = progress,
                            ![jobId].nticks = @ + 1]
        /\ IF redis
             THEN /\ ticks' = ticks \cup {[jobId |-> jobId, phase |-> "read",
                                          progress |-> progress, rec |-> Null]}
                  /\ UNCHANGED stores
             ELSE /\ stores' =
                       IF ~IsNull(currentStatus) /\ Val(currentStatus).status = "processing"
                         THEN setJobStatus(stores, jobId,
                                TickRecord(Val(currentStatus), progress, now))
                         ELSE stores
                  /\ UNCHANGED ticks
  /\ UNCHANGED <<ui, env, down, redis, bucket, lim, now, queue, nextId, sub>>
  /\ resp' = NoResp

\* ---------------------------------------------------------------- job body
\* A job body that leaves its interval running when the delay is over.
SleepExpiresNoClear(jobId) ==
  /\ ex[jobId].pc = "sleeping"
  /\ ex' = [ex EXCEPT ![jobId].pc = "probe", ![jobId].sleepStart = 0]
  /\ UNCHANGED <<ui, env, down, redis, bucket, lim, now, stores, queue, nextId, sub, ticks>>
  /\ resp' = NoResp

\* sleep(delayMs) resolves; clearInterval(progressInterval).  The interval's
\* counter is read by no code after this point.
SleepExpires(jobId) ==
  /\ ex[jobId].pc = "sleeping"
  /\ ex' = [ex EXCEPT ![jobId].pc = "probe", ![jobId].progress = 0,
                      ![jobId].nticks = 0, ![jobId].interval = FALSE,
                      ![jobId].sleepStart = 0]
  /\ UNCHANGED <<ui, env, down, redis, bucket, lim, now, stores, queue, nextId, sub, ticks>>
  /\ resp' = NoResp

\* A sleep that may resolve before its delay is over.
SleepExpiresEarly(jobId) ==
  /\ SleepExpires(jobId)

\* sleep(delayMs) resolves no earlier than delayMs after it was called.
SleepExpiresTimed(jobId) ==
  /\ now >= ex[jobId].sleepStart + ex[jobId].delayMs
  /\ SleepExpires(jobId)

\* The timeout fires once it is due and no firing of the interval is due
\* before it.
SleepExpiresInOrder(jobId) ==
  /\ TickDue(jobId) >= SleepDue(jobId)
  /\ SleepExpiresTimed(jobId)

\* checkS3Availability returns; processingTimeMs is taken.
Probe(jobId) ==
  /\ ex[jobId].pc = "probe"
  /\ \E s3Result \in checkS3Availability(ex[jobId].fileId) :
       ex' = [ex EXCEPT ![jobId].available = s3Result.available,
                        ![jobId].s3Key = s3Result.s3Key,
                        ![jobId].size = s3Result.size,
                        ![jobId].ptime = now - ex[jobId].startTime,
                        ![jobId].pc = IF s3Result.available /\ ~IsNull(s3Result.s3Key)
                                        THEN "issue" ELSE "readC"]
  /\ UNCHANGED <<ui, env, down, redis, bucket, lim, now, stores, queue, nextId, sub, ticks>>
  /\ resp' = NoResp

\* generatePresignedUrl returns.
IssueUrl(jobId) ==
  /\ ex[jobId].pc = "issue"
  /\ \E downloadUrl \in generatePresignedUrl(Val(ex[jobId].s3Key)) :
       ex' = [ex EXCEPT ![jobId].downloadUrl = downloadUrl, ![jobId].pc = "readC"]
  /\ UNCHANGED <<ui, env, down, redis, bucket, lim, now, stores, queue, nextId, sub, ticks>>
  /\ resp' = NoResp

\* A terminal write that treats a missing URL as a failure of the job.
TerminalRecordStrict(e, currentStatus, t) ==
  LET createdAt == IF IsNull(currentStatus) THEN t ELSE Val(currentStatus).createdAt
  IN IF e.available /\ ~IsNull(e.s3Key) /\ ~IsNull(e.downloadUrl)
       THEN CompletedRecord(e.fileId, e.downloadUrl, e.size, e.ptime, createdAt, t)
       ELSE FailedRecord(e.fileId, e.ptime, createdAt, t)

TerminalRecord(e, currentStatus, t) ==
  LET createdAt == IF IsNull(currentStatus) THEN t ELSE Val(currentStatus).createdAt
  IN IF e.available /\ ~IsNull(e.s3Key)
       THEN CompletedRecord(e.fileId, e.downloadUrl, e.size, e.ptime, createdAt, t)
       ELSE FailedRecord(e.fileId, e.ptime, createdAt, t)

\* (await getJobStatus(jobId))?.createdAt returns; the terminal SET is issued.
ReadCreatedAt(jobId) ==
  /\ ex[jobId].pc = "readC"
  /\ ex' = [ex EXCEPT ![jobId].pending =
                         Some(TerminalRecord(ex[jobId], getJobStatus(stores, jobId), now)),
                      ![jobId].pc = "write"]
  /\ UNCHANGED <<ui, env, down, redis, bucket, lim, now, stores, queue, nextId, sub, ticks>>
  /\ resp' = NoResp

\* A terminal write that is keyed by a fixed identifier, not by the job's own.
WriteTerminalFixedKey(jobId) ==
  /\ ex[jobId].pc = "write"
  /\ stores' = setJobStatus(stores, 1, Val(ex[jobId].pending))
  /\ ex' = [ex EXCEPT ![jobId] =
              [NoEx EXCEPT !.pc = "done", !.deliveries = ex[jobId].deliveries]]
  /\ UNCHANGED <<ui, env, down, redis, bucket, lim, now, queue, nextId, sub, ticks>>
  /\ resp' = NoResp

\* The terminal SET lands; processDownloadJob returns and the processor ends.
WriteTerminal(jobId) ==
  /\ ex[jobId].pc = "write"
  /\ stores' = setJobStatus(stores, jobId, Val(ex[jobId].pending))
  /\ ex' = [ex EXCEPT ![jobId] =
              [NoEx EXCEPT !.pc = "done", !.deliveries = ex[jobId].deliveries]]
  /\ UNCHANGED <<ui, env, down, redis, bucket, lim, now, queue, nextId, sub, ticks>>
  /\ resp' = NoResp

\* ----------------------------------------------------------- specification
PollIds == 1..(lim.jobs + 1)

Next ==
  \/ \E file_ids \in Batches : Initiate(file_ids)
  \/ \E jobId \in JobIds : Enqueue(jobId)
  \/ \E jobId \in JobIds : Respond(jobId)
  \/ Dequeue
  \/ \E jobId \in JobIds : WriteProcessing(jobId)
  \/ \E jobId \in JobIds : Tick(jobId)
  \/ \E t \in ticks : TickRead(t)
  \/ \E t \in ticks : TickWrite(t)
  \/ \E jobId \in JobIds : SleepExpires(jobId)
  \/ \E jobId \in JobIds : Probe(jobId)
  \/ \E jobId \in JobIds : IssueUrl(jobId)
  \/ \E jobId \in JobIds : ReadCreatedAt(jobId)
  \/ \E jobId \in JobIds : WriteTerminal(jobId)

Spec == Init /\ [][Next]_vars

\* The same system with the requests that change nothing but the response:
\* rejected submissions and status polls.  The S3 configuration plays no part
\* in them; the scenario is the mock mode.
InitHttp == InitWith(MaxJobs, MaxTicks, BOOLEAN, {FALSE})

NextHttp ==
  \/ Next
  \/ \E file_ids \in Batches : Reject(file_ids)
  \/ \E jobId \in PollIds : GetStatus(jobId)

SpecHttp == InitHttp /\ [][NextHttp]_vars

\* The worker pool under load, on the durable-queue backend.  The scenario starts
\* when one more submission than the pool has slots has been accepted and
\* answered (each by Initiate, Enqueue, Respond) and the worker has not fetched
\* yet.  The delay is drawn per job; here the first job draws a delay that
\* expires (and lets the interval fire) while the later jobs are inside theirs.
PoolJobs == Concurrency + 1

PoolShort == {1}

PoolBatch == <<Num(70000)>>

PoolFileId == PoolBatch[1].n

InitPool ==
  /\ ui = NoUi
  /\ env = DefaultEnv
  /\ down = NoDown
  /\ redis = TRUE
  /\ bucket = FALSE
  /\ lim = [jobs |-> PoolJobs, ticks |-> MaxTicks]
  /\ now = 0
  /\ stores = [redisKV |-> [j \in 1..PoolJobs |-> JSONstringify(QueuedRecord(PoolFileId, 0))],
               redisEX |-> [j \in 1..PoolJobs |-> Retention * 1000],
               inMemoryJobs |-> <<>>]
  /\ queue = [j \in 1..PoolJobs |-> [jobId |-> j, fileId |-> PoolFileId]]
  /\ nextId = PoolJobs
  /\ sub = [j \in 1..PoolJobs |->
              [pc |-> "responded", fileId |-> PoolFileId, total |-> 1]]
  /\ ex = [j \in 1..PoolJobs |-> NoEx]
  /\ ticks = {}
  /\ resp = NoResp

NextPool ==
  \/ Dequeue
  \/ \E jobId \in JobIds : WriteProcessing(jobId)
  \/ \E jobId \in PoolShort : Tick(jobId)
  \/ \E t \in ticks : TickRead(t)
  \/ \E t \in ticks : TickWrite(t)
  \/ \E jobId \in PoolShort : SleepExpires(jobId)
  \/ \E jobId \in JobIds : Probe(jobId)
  \/ \E jobId \in JobIds : IssueUrl(jobId)
  \/ \E jobId \in JobIds : ReadCreatedAt(jobId)
  \/ \E jobId \in JobIds : WriteTerminal(jobId)

SpecPool == InitPool /\ [][NextPool]_vars

\* More submissions than the worker's concurrency with no Redis configured:
\* every handler runs the fallback branch.  The first two jobs run to their
\* end, the others stay in their delay.
BurstShort == {1, 2}

InitBurst == InitWith(PoolJobs, MaxTicks, {FALSE}, {FALSE})

NextBurst ==
  \/ Initiate(PoolBatch)
  \/ \E jobId \in BurstShort : Tick(jobId)
  \/ \E jobId \in BurstShort : SleepExpires(jobId)
  \/ \E jobId \in JobIds : Probe(jobId)
  \/ \E jobId \in JobIds : IssueUrl(jobId)
  \/ \E jobId \in JobIds : ReadCreatedAt(jobId)
  \/ \E jobId \in JobIds : WriteTerminal(jobId)

SpecBurst == InitBurst /\ [][NextBurst]_vars

\* The mock mode with a worker and timers that keep running: the event loop
\* runs every callback that is ready, every timer expires, every store and
\* queue command is answered, and the worker fetches while it has a free slot.
\* The interval's callbacks are not needed for a job to finish.
InitLive == InitWith(MaxJobs, MaxTicks, BOOLEAN, {FALSE})

FairJobs(jobs) ==
  /\ WF_vars(Dequeue)
  /\ \A jobId \in 1..jobs :
       /\ WF_vars(Enqueue(jobId))
       /\ WF_vars(Respond(jobId))
       /\ WF_vars(WriteProcessing(jobId))
       /\ WF_vars(SleepExpires(jobId))
       /\ WF_vars(Probe(jobId))
       /\ WF_vars(IssueUrl(jobId))
       /\ WF_vars(ReadCreatedAt(jobId))
       /\ WF_vars(WriteTerminal(jobId))

Fairness == FairJobs(MaxJobs)

SpecLive == InitLive /\ [][Next]_vars /\ Fairness

\* One job whose interval fires as often as it can within the delay: the period
\* is a tenth of the delay (and at least a second), so at most ten firings.
TickJobs == 1

InitTicks == InitWith(TickJobs, IntervalDivisor, BOOLEAN, BOOLEAN)

SpecTicks == InitTicks /\ [][Next]_vars

\* The same system with a wall clock that moves between steps (milliseconds
\* pass between the handler's write and the worker's).
Clock ==
  /\ now < MaxClock
  /\ now' = now + 1
  /\ resp' = NoResp
  /\ UNCHANGED <<ui, env, down, redis, bucket, lim, stores, queue, nextId, sub, ex, ticks>>

InitClock == InitWith(MaxJobs, MaxTicks, BOOLEAN, {FALSE})

NextClock ==
  \/ Next
  \/ Clock

SpecClock == InitClock /\ [][NextClock]_vars

\* ------------------------------------------------------------------ faults
\* Redis answers a command with an error (or the connection fails it): the
\* awaited promise rejects.  The in-memory map has no failing operation.

\* An enqueue failure handler that takes the queued record back out.
EnqueueFailsCompensated(jobId) ==
  /\ redis
  /\ sub[jobId].pc = "written"
  /\ sub' = [sub EXCEPT ![jobId].pc = "failed"]
  /\ stores' = [stores EXCEPT !.redisKV =
                   [k \in DOMAIN stores.redisKV \ {jobId} |-> stores.redisKV[k]]]
  /\ resp' = [op |-> "submit", code |-> 500, jobId |-> 0, total |-> 0, body |-> Null]
  /\ UNCHANGED <<ui, env, down, redis, bucket, lim, now, queue, nextId, ex, ticks>>

\* await downloadQueue.add(...) rejects: the handler throws and app.onError
\* answers 500.  Nothing is added to the queue.
EnqueueFails(jobId) ==
  /\ redis
  /\ sub[jobId].pc = "written"
  /\ sub' = [sub EXCEPT ![jobId].pc = "failed"]
  /\ resp' = [op |-> "submit", code |-> 500, jobId |-> 0, total |-> 0, body |-> Null]
  /\ UNCHANGED <<ui, env, down, redis, bucket, lim, now, stores, queue, nextId, ex, ticks>>

\* A store command awaited by processDownloadJob rejects (the processing SET,
\* the GET for createdAt or the terminal SET): processDownloadJob has no
\* try/catch, so the processor's promise rejects.
StoreCommandFails(jobId) ==
  /\ redis
  /\ ex[jobId].pc \in {"start", "readC", "write"}
  /\ ex' = [ex EXCEPT ![jobId] =
              [NoEx EXCEPT !.pc = "thrown", !.deliveries = ex[jobId].deliveries]]
  /\ resp' = NoResp
  /\ UNCHANGED <<ui, env, down, redis, bucket, lim, now, stores, queue, nextId, sub, ticks>>

\* The work item was added without retry options, so the worker gives up on
\* it and emits "failed"; the handler logs the error.
OnFailed(jobId) ==
  /\ redis
  /\ ex[jobId].pc = "thrown"
  /\ ex' = [ex EXCEPT ![jobId].pc = "failed"]
  /\ resp' = NoResp
  /\ UNCHANGED <<ui, env, down, redis, bucket, lim, now, stores, queue, nextId, sub, ticks>>

\* Two submissions, one after or beside the other.
PairJobs == 2

\* The durable-queue backend with failing commands, and two submissions so that
\* a job runs beside a failed one.
InitFault == InitWith(PairJobs, MaxTicks, {TRUE}, {FALSE})

NextFault ==
  \/ Next
  \/ \E jobId \in JobIds : EnqueueFails(jobId)
  \/ \E jobId \in JobIds : StoreCommandFails(jobId)
  \/ \E jobId \in JobIds : OnFailed(jobId)

FairFault ==
  /\ FairJobs(PairJobs)
  /\ \A jobId \in 1..PairJobs : WF_vars(OnFailed(jobId))

SpecFault == InitFault /\ [][NextFault]_vars /\ FairFault

InitPair == InitWith(PairJobs, MaxTicks, BOOLEAN, {FALSE})

SpecPair == InitPair /\ [][Next]_vars

\* ------------------------------------------------------------- redelivery
\* At-least-once delivery: the queue loses track of a work item whose processor
\* has run (its lock expired, its completion was not recorded) and puts it back
\* on the wait list; the worker will call processDownloadJob for it again.
Redeliver(jobId) ==
  /\ redis
  /\ ex[jobId].pc = "done"
  /\ ex[jobId].deliveries <= MaxRedeliveries
  /\ \A i \in 1..Len(queue) : queue[i].jobId # jobId
  /\ queue' = Append(queue, [jobId |-> jobId, fileId |-> sub[jobId].fileId])
  /\ resp' = NoResp
  /\ UNCHANGED <<ui, env, down, redis, bucket, lim, now, stores, nextId, sub, ex, ticks>>

InitRedeliver == InitWith(MaxJobs, MaxTicks, {TRUE}, {FALSE})

NextRedeliver ==
  \/ Next
  \/ \E jobId \in JobIds : Redeliver(jobId)

SpecRedeliver == InitRedeliver /\ [][NextRedeliver]_vars

\* --------------------------------------------------------------- retention
\* The retention window passes while the service has nothing to do: no handler
\* is between its steps, no work item waits, no execution or callback runs.
Idle ==
  /\ \A jobId \in JobIds :
       /\ sub[jobId].pc \in {"idle", "responded", "failed"}
       /\ ex[jobId].pc \in {"idle", "done", "failed"}
  /\ queue = <<>>
  /\ ticks = {}

DayPasses ==
  /\ Idle
  /\ now < MaxClock * Retention * 1000
  /\ now' = now + Retention * 1000
  /\ resp' = NoResp
  /\ UNCHANGED <<ui, env, down, redis, bucket, lim, stores, queue, nextId, sub, ex, ticks>>

InitEvict == InitWith(MaxJobs, MaxTicks, BOOLEAN, {FALSE})

NextEvict ==
  \/ Next
  \/ DayPasses
  \/ \E jobId \in PollIds : GetStatus(jobId)

SpecEvict == InitEvict /\ [][NextEvict]_vars

\* ---------------------------------------------------------------- shutdown
\* gracefulShutdown(server)(signal).  down.closed lists what has been closed, in
\* the order it was closed; down.failed holds the steps whose promise rejected.
Closed(x) == \E i \in 1..Len(down.closed) : down.closed[i] = x

Others == <<ui, env, redis, bucket, lim, now, stores, queue, nextId, sub, ex, ticks>>

\* SIGTERM / SIGINT: server.close(callback) stops accepting connections.
Signal ==
  /\ down.pc = "running"
  /\ down' = [down EXCEPT !.pc = "closing"]
  /\ resp' = NoResp
  /\ UNCHANGED Others

\* The requests in progress have been answered: the server is closed and its
\* callback runs closeQueue() up to its first await.
ServerClosed ==
  /\ down.pc = "closing"
  /\ \A jobId \in JobIds : sub[jobId].pc \notin {"written", "enqueued"}
  /\ down' = [down EXCEPT !.closed = Append(@, "server"),
                          !.pc = IF redis THEN "worker" ELSE "otel"]
  /\ resp' = NoResp
  /\ UNCHANGED Others

\* A shutdown that gives up when the worker cannot be closed.
CloseWorkerOrAbort(ok) ==
  /\ down.pc = "worker"
  /\ down' = IF ok
               THEN [down EXCEPT !.closed = Append(@, "worker"), !.pc = "queue"]
               ELSE [down EXCEPT !.failed = @ \cup {"worker"}, !.pc = "completed"]
  /\ resp' = NoResp
  /\ UNCHANGED Others

\* await downloadWorker.close() resolves, or rejects into .catch and .finally
CloseWorker(ok) ==
  /\ down.pc = "worker"
  /\ down' = IF ok
               THEN [down EXCEPT !.closed = Append(@, "worker"), !.pc = "queue"]
               ELSE [down EXCEPT !.failed = @ \cup {"worker"}, !.pc = "otel"]
  /\ resp' = NoResp
  /\ UNCHANGED Others

\* await downloadQueue.close()
CloseQueue(ok) ==
  /\ down.pc = "queue"
  /\ down' = IF ok
               THEN [down EXCEPT !.closed = Append(@, "queue"), !.pc = "store"]
               ELSE [down EXCEPT !.failed = @ \cup {"queue"}, !.pc = "otel"]
  /\ resp' = NoResp
  /\ UNCHANGED Others

\* await redisConnection.quit()
QuitRedis(ok) ==
  /\ down.pc = "store"
  /\ down' = IF ok
               THEN [down EXCEPT !.closed = Append(@, "store"), !.pc = "otel"]
               ELSE [down EXCEPT !.failed = @ \cup {"store"}, !.pc = "otel"]
  /\ resp' = NoResp
  /\ UNCHANGED Others

\* otelSDK.shutdown() resolves or rejects; .finally runs either way.
ShutdownOtel(ok) ==
  /\ down.pc = "otel"
  /\ down' = IF ok
               THEN [down EXCEPT !.closed = Append(@, "otel"), !.pc = "s3"]
               ELSE [down EXCEPT !.failed = @ \cup {"otel"}, !.pc = "s3"]
  /\ resp' = NoResp
  /\ UNCHANGED Others

\* s3Client.destroy(); "Graceful shutdown completed"
DestroyS3 ==
  /\ down.pc = "s3"
  /\ down' = [down EXCEPT !.closed = Append(@, "s3"), !.pc = "completed"]
  /\ resp' = NoResp
  /\ UNCHANGED Others

\* Shutdown while one job is under way.  A closed server takes no submission
\* and a closed worker fetches no work item; a job body that is running goes on.
InitShutdown == InitWith(TickJobs, MaxTicks, BOOLEAN, {FALSE})

NextShutdown ==
  \/ down.pc = "running" /\ \E file_ids \in Batches : Initiate(file_ids)
  \/ \E jobId \in JobIds : Enqueue(jobId)
  \/ \E jobId \in JobIds : Respond(jobId)
  \/ ~Closed("worker") /\ Dequeue
  \/ \E jobId \in JobIds : WriteProcessing(jobId)
  \/ \E jobId \in JobIds : Tick(jobId)
  \/ \E t \in ticks : TickRead(t)
  \/ \E t \in ticks : TickWrite(t)
  \/ \E jobId \in JobIds : SleepExpires(jobId)
  \/ \E jobId \in JobIds : Probe(jobId)
  \/ \E jobId \in JobIds : IssueUrl(jobId)
  \/ \E jobId \in JobIds : ReadCreatedAt(jobId)
  \/ \E jobId \in JobIds : WriteTerminal(jobId)
  \/ Signal
  \/ ServerClosed
  \/ \E ok \in BOOLEAN : CloseWorker(ok)
  \/ \E ok \in BOOLEAN : CloseQueue(ok)
  \/ \E ok \in BOOLEAN : QuitRedis(ok)
  \/ \E ok \in BOOLEAN : ShutdownOtel(ok)
  \/ DestroyS3

SpecShutdown == InitShutdown /\ [][NextShutdown]_vars

\* -------------------------------------------------------------------- keys
\* Single submissions over identifiers of every length the schema accepts:
\* both ends of the range, the powers of ten and their neighbours, and a run
\* of consecutive identifiers.  The job runs without Redis, with and without
\* a bucket.
KeyIds ==
  (MinFileId..(MinFileId + 20)) \cup
  {70000, 99999, 100000, 100001, 999999, 1000000, 1234567, 9999999, 10000000,
   10000001, 12345678, 99999999, MaxFileId - 1, MaxFileId}

KeyBatches == {<<Num(fileId)>> : fileId \in KeyIds}

InitKey == InitWith(TickJobs, MaxTicks, {FALSE}, BOOLEAN)

NextKey ==
  \/ \E file_ids \in KeyBatches : Initiate(file_ids)
  \/ \E jobId \in JobIds : Tick(jobId)
  \/ \E jobId \in JobIds : SleepExpires(jobId)
  \/ \E jobId \in JobIds : Probe(jobId)
  \/ \E jobId \in JobIds : IssueUrl(jobId)
  \/ \E jobId \in JobIds : ReadCreatedAt(jobId)
  \/ \E jobId \in JobIds : WriteTerminal(jobId)

SpecKey == InitKey /\ [][NextKey]_vars

\* ------------------------------------------------------------------ client
\* The DownloadJobs component.  It submits one identifier at a time.
ClientBatches == {<<Num(70000)>>, <<Num(70001)>>}

\* initiateMutation.onSuccess: the job enters the list with the status of the
\* submit response.
onSuccess(jobId) ==
  /\ sub[jobId].pc = "responded"
  /\ jobId \notin DOMAIN ui.jobs
  /\ ui' = [ui EXCEPT !.jobs = Put(@, jobId, "queued")]
  /\ UNCHANGED <<env, down, redis, bucket, lim, now, stores, queue, nextId, sub, ex, ticks>>
  /\ resp' = NoResp

activeJobIds == {jobId \in DOMAIN ui.jobs : ui.jobs[jobId] \in {"queued", "processing"}}

\* useQuery runs queryFn for the key ["jobStatuses", activeJobIds]: when the
\* key is new and every refetchInterval, while enabled and while no call for
\* that key is in flight.  A call for an earlier key is not cancelled.
queryFn ==
  /\ activeJobIds # {}
  /\ \A p \in ui.polls : p.queryKey # activeJobIds
  /\ Cardinality(ui.polls) < MaxPolls
  /\ ui' = [ui EXCEPT !.polls = @ \cup {[queryKey |-> activeJobIds, updates |-> <<>>]}]
  /\ UNCHANGED <<env, down, redis, bucket, lim, now, stores, queue, nextId, sub, ex, ticks>>
  /\ resp' = NoResp

\* One fetchJobStatus of a call: the status handler answers from the store,
\* and the call keeps the answer, or null when the fetch threw.
fetchJobStatus(p, jobId, ok) ==
  /\ p \in ui.polls
  /\ jobId \in p.queryKey \ DOMAIN p.updates
  /\ LET jobStatus == getJobStatus(stores, jobId)
         update == IF ok /\ ~IsNull(jobStatus) THEN Some(Val(jobStatus).status) ELSE Null
     IN /\ ui' = [ui EXCEPT !.polls =
                    (@ \ {p}) \cup {[p EXCEPT !.updates = Put(@, jobId, update)]}]
        /\ resp' = IF IsNull(jobStatus)
                     THEN [op |-> "status", code |-> 404, jobId |-> jobId,
                           total |-> 0, body |-> Null]
                     ELSE [op |-> "status", code |-> 200, jobId |-> jobId,
                           total |-> 0, body |-> jobStatus]
  /\ UNCHANGED <<env, down, redis, bucket, lim, now, stores, queue, nextId, sub, ex, ticks>>

\* Promise.all has settled: setJobs maps every job of the list that has an
\* update to the update's status.
setJobs(p) ==
  /\ p \in ui.polls
  /\ DOMAIN p.updates = p.queryKey
  /\ ui' = [jobs |-> [jobId \in DOMAIN ui.jobs |->
                        IF jobId \in p.queryKey /\ ~IsNull(p.updates[jobId])
                          THEN Val(p.updates[jobId])
                          ELSE ui.jobs[jobId]],
            polls |-> ui.polls \ {p}]
  /\ UNCHANGED <<env, down, redis, bucket, lim, now, stores, queue, nextId, sub, ex, ticks>>
  /\ resp' = NoResp

\* The component against the service without Redis; what the component does
\* with a status answer does not depend on the store that gave it.
InitClient == InitWith(PairJobs, MaxTicks, {FALSE}, {FALSE})

NextClient ==
  \/ \E file_ids \in ClientBatches : Initiate(file_ids)
  \/ \E jobId \in JobIds : Tick(jobId)
  \/ \E jobId \in JobIds : SleepExpires(jobId)
  \/ \E jobId \in JobIds : Probe(jobId)
  \/ \E jobId \in JobIds : IssueUrl(jobId)
  \/ \E jobId \in JobIds : ReadCreatedAt(jobId)
  \/ \E jobId \in JobIds : WriteTerminal(jobId)
  \/ \E jobId \in JobIds : onSuccess(jobId)
  \/ queryFn
  \/ \E p \in ui.polls : \E jobId \in JobIds : \E ok \in BOOLEAN : fetchJobStatus(p, jobId, ok)
  \/ \E p \in ui.polls : setJobs(p)

SpecClient == InitClient /\ [][NextClient]_vars

\* ------------------------------------------------------------------ timers
\* The interval and the sleep against a clock that goes in seconds, for delays
\* of 0 (switch off), 3 s (interval held at 1 s) and 15 s (interval 1.5 s).
TimerEnvs ==
  {DelaySettings(enabled, delayMs, delayMs) :
     enabled \in BOOLEAN, delayMs \in {3000, 15000}}

\* A second passes while a job sleeps or its timeout is at most a second late.
Second ==
  /\ \E jobId \in JobIds :
       ex[jobId].pc = "sleeping" /\ now < SleepDue(jobId) + 1000
  /\ now' = now + 1000
  /\ UNCHANGED <<ui, env, down, redis, bucket, lim, stores, queue, nextId, sub, ex, ticks>>
  /\ resp' = NoResp

InitTimer ==
  /\ ui = NoUi
  /\ env \in TimerEnvs
  /\ down = NoDown
  /\ redis \in BOOLEAN
  /\ bucket = FALSE
  /\ lim = [jobs |-> TickJobs, ticks |-> MaxTicks]
  /\ now = 0
  /\ stores = [redisKV |-> <<>>, redisEX |-> <<>>, inMemoryJobs |-> <<>>]
  /\ queue = <<>>
  /\ nextId = 0
  /\ sub = [j \in 1..TickJobs |-> NoSub]
  /\ ex = [j \in 1..TickJobs |-> NoEx]
  /\ ticks = {}
  /\ resp = NoResp

NextTimer ==
  \/ \E file_ids \in Batches : Initiate(file_ids)
  \/ \E jobId \in JobIds : Enqueue(jobId)
  \/ \E jobId \in JobIds : Respond(jobId)
  \/ Dequeue
  \/ \E jobId \in JobIds : WriteProcessing(jobId)
  \/ \E jobId \in JobIds : TickTimed(jobId)
  \/ \E t \in ticks : TickRead(t)
  \/ \E t \in ticks : TickWrite(t)
  \/ \E jobId \in JobIds : SleepExpiresInOrder(jobId)
  \/ \E jobId \in JobIds : Probe(jobId)
  \/ \E jobId \in JobIds : IssueUrl(jobId)
  \/ \E jobId \in JobIds : ReadCreatedAt(jobId)
  \/ \E jobId \in JobIds : WriteTerminal(jobId)
  \/ Second

SpecTimer == InitTimer /\ [][NextTimer]_vars

\* ------------------------------------------------------------------- delay
\* The job body against the clock, for delay settings with the switch on and
\* off, with min <= max and with min > max (the settings are not cross-checked).
DelayEnvs ==
  {DelaySettings(enabled, range[1], range[2]) :
     enabled \in BOOLEAN, range \in {<<1, 2>>, <<2, 0>>}}

InitDelay ==
  /\ ui = NoUi
  /\ env \in DelayEnvs
  /\ down = NoDown
  /\ redis \in BOOLEAN
  /\ bucket = FALSE
  /\ lim = [jobs |-> TickJobs, ticks |-> MaxTicks]
  /\ now = 0
  /\ stores = [redisKV |-> <<>>, redisEX |-> <<>>, inMemoryJobs |-> <<>>]
  /\ queue = <<>>
  /\ nextId = 0
  /\ sub = [j \in 1..TickJobs |-> NoSub]
  /\ ex = [j \in 1..TickJobs |-> NoEx]
  /\ ticks = {}
  /\ resp = NoResp

NextDelay ==
  \/ \E file_ids \in Batches : Initiate(file_ids)
  \/ \E jobId \in JobIds : Enqueue(jobId)
  \/ \E jobId \in JobIds : Respond(jobId)
  \/ Dequeue
  \/ \E jobId \in JobIds : WriteProcessing(jobId)
  \/ \E jobId \in JobIds : Tick(jobId)
  \/ \E t \in ticks : TickRead(t)
  \/ \E t \in ticks : TickWrite(t)
  \/ \E jobId \in JobIds : SleepExpiresTimed(jobId)
  \/ \E jobId \in JobIds : Probe(jobId)
  \/ \E jobId \in JobIds : IssueUrl(jobId)
  \/ \E jobId \in JobIds : ReadCreatedAt(jobId)
  \/ \E jobId \in JobIds : WriteTerminal(jobId)
  \/ Clock

SpecDelay == InitDelay /\ [][NextDelay]_vars

\* ================================================================== claims
Terminal(rec) == rec.status \in {"completed", "failed"}

Rank(status) ==
  CASE status = "queued" -> 0
    [] status = "processing" -> 1
    [] OTHER -> 2

Kept(jobId) == jobId \in DOMAIN Jobs /\ jobId \in DOMAIN Jobs'

\* C1: the stored status of a job only moves along queued -> processing ->
\* {completed | failed}: no step replaces a stored status by an earlier one, and
\* a stored completed or failed status never changes again.
StatusNeverRegresses ==
  [][\A jobId \in JobIds :
       Kept(jobId) =>
         /\ Rank(Jobs'[jobId].status) >= Rank(Jobs[jobId].status)
         /\ Terminal(Jobs[jobId]) => Jobs'[jobId].status = Jobs[jobId].status]_vars

\* C2: no progress tick overwrites a terminal record: when a tick's write lands
\* on a record that is completed or failed, the record stays as it was.
TickKeepsTerminal ==
  [][\A t \in ticks :
       (TickWrite(t) /\ t.jobId \in DOMAIN Jobs /\ Terminal(Jobs[t.jobId]))
         => Jobs'[t.jobId] = Jobs[t.jobId]]_vars

\* C3: the stored progress of a job never decreases from one stored version of
\* its record to the next.
ProgressMonotonic ==
  [][\A jobId \in JobIds :
       Kept(jobId) => Jobs'[jobId].progress >= Jobs[jobId].progress]_vars

\* C4: in every stored record downloadUrl is non-null if and only if the status
\* is completed.
UrlIffCompleted ==
  \A jobId \in DOMAIN Jobs :
    ~IsNull(Jobs[jobId].downloadUrl) <=> Jobs[jobId].status = "completed"

\* C5 as stated: when submit answers 200 the store holds the job's record with
\* status queued or processing, progress 0 and a null downloadUrl.
SubmitReturnsFresh ==
  (resp.op = "submit" /\ resp.code = 200) =>
    /\ resp.jobId \in DOMAIN Jobs
    /\ Jobs[resp.jobId].status \in {"queued", "processing"}
    /\ Jobs[resp.jobId].progress = 0
    /\ IsNull(Jobs[resp.jobId].downloadUrl)

\* C5 as amended: when submit answers 200 the store holds a record for the job
\* with the batch's first identifier; without Redis that record is the
\* processing record with progress 0 and a null downloadUrl; with Redis the
\* worker may already have moved it on (any status, any progress).
SubmitReturnsRecord ==
  (resp.op = "submit" /\ resp.code = 200) =>
    /\ resp.jobId \in DOMAIN Jobs
    /\ Jobs[resp.jobId].file_id = sub[resp.jobId].fileId
    /\ ~redis => /\ Jobs[resp.jobId].status = "processing"
                 /\ Jobs[resp.jobId].progress = 0
                 /\ IsNull(Jobs[resp.jobId].downloadUrl)

SubmitReturnsRecordWitness ==
  /\ resp.op = "submit"
  /\ resp.code = 200
  /\ redis
  /\ resp.jobId \in DOMAIN Jobs
  /\ Terminal(Jobs[resp.jobId])

Invalid(file_ids) ==
  \/ Len(file_ids) = 0
  \/ Len(file_ids) > 1000
  \/ \E i \in 1..Len(file_ids) :
       file_ids[i].half \/ file_ids[i].n < 10000 \/ file_ids[i].n > 100000000

InvalidRejected ==
  /\ [](\A file_ids \in Batches :
          Invalid(file_ids) => ENABLED Reject(file_ids) /\ ~ENABLED Initiate(file_ids))
  /\ [][(resp'.op = "submit" /\ resp'.code = 400)
          => UNCHANGED <<stores, queue, nextId, sub, ex, ticks>>]_vars

InvalidRejectedWitness ==
  /\ resp.op = "submit"
  /\ resp.code = 400
  /\ nextId < lim.jobs
  /\ DOMAIN Jobs = {}
  /\ queue = <<>>

\* C8: a status read of an identifier no submission has generated answers 404;
\* a status read of an identifier whose record is stored answers 200 with
\* exactly that record.
StatusAnswers ==
  resp.op = "status" =>
    /\ resp.jobId > nextId => resp.code = 404
    /\ resp.jobId \notin DOMAIN Jobs => resp.code = 404 /\ IsNull(resp.body)
    /\ resp.jobId \in DOMAIN Jobs =>
         resp.code = 200 /\ resp.body = Some(Jobs[resp.jobId])

StatusAnswersWitness ==
  /\ resp.op = "status"
  /\ resp.code = 404
  /\ resp.jobId > nextId
  /\ DOMAIN Jobs # {}

\* C9: a status read, found or not, changes no record, no queue entry, no
\* handler, no execution and no pending tick.
StatusReadOnly ==
  [][resp'.op = "status"
       => UNCHANGED <<stores, queue, nextId, sub, ex, ticks>>]_vars

StatusReadOnlyWitness ==
  /\ resp.op = "status"
  /\ resp.code = 200
  /\ ticks # {}

\* C10: with Redis, at most `concurrency` stored records have status processing.
Processing == {jobId \in DOMAIN Jobs : Jobs[jobId].status = "processing"}

PoolCeiling == redis => Cardinality(Processing) <= Concurrency

\* C11: in mock mode, with a worker and timers that keep running, a submitted
\* job whose fileId is divisible by 7 eventually has a stored record with status
\* completed and a non-null downloadUrl, and a submitted job whose fileId is not
\* divisible by 7 eventually has one with status failed and a null downloadUrl:
\* whenever the job has been submitted, a state with that record follows.
Submitted(jobId) == sub[jobId].pc \in {"enqueued", "responded"}

MockOutcome(jobId) ==
  /\ jobId \in DOMAIN Jobs
  /\ IF sub[jobId].fileId % 7 = 0
       THEN Jobs[jobId].status = "completed" /\ ~IsNull(Jobs[jobId].downloadUrl)
       ELSE Jobs[jobId].status = "failed" /\ IsNull(Jobs[jobId].downloadUrl)

ProgressMatchesStatus ==
  \A jobId \in DOMAIN Jobs :
    IF Terminal(Jobs[jobId])
      THEN Jobs[jobId].progress = 100
      ELSE Jobs[jobId].progress \in {10 * k : k \in 0..9}

ProgressMatchesStatusWitness ==
  \E jobId \in DOMAIN Jobs :
    /\ Jobs[jobId].status = "processing"
    /\ Jobs[jobId].progress = 90
    /\ ex[jobId].nticks = 10

\* C13: createdAt is immutable: every later stored version of a job's record
\* has the createdAt of the version it replaces, from the queued record on.
CreatedAtImmutable ==
  [][\A jobId \in JobIds :
       Kept(jobId) => Jobs'[jobId].createdAt = Jobs[jobId].createdAt]_vars

\* C14: processingTimeMs is set exactly once, on the terminal transition: it is
\* null in every stored queued or processing record, non-null in every stored
\* completed or failed record, and once it is non-null no later write changes
\* it or resets it to null.
ProcessingTimeSetOnce ==
  /\ [](\A jobId \in DOMAIN Jobs :
          IsNull(Jobs[jobId].processingTimeMs) <=> ~Terminal(Jobs[jobId]))
  /\ [][\A jobId \in JobIds :
          (Kept(jobId) /\ ~IsNull(Jobs[jobId].processingTimeMs))
            => Jobs'[jobId].processingTimeMs = Jobs[jobId].processingTimeMs]_vars

\* C15: in every stored record size is non-null only if downloadUrl is non-null.
SizeOnlyWithUrl ==
  \A jobId \in DOMAIN Jobs :
    ~IsNull(Jobs[jobId].size) => ~IsNull(Jobs[jobId].downloadUrl)

\* C16: when the worker gives up on a work item whose processor threw, the
\* failure hook makes the job's record failed: once the hook has run, the stored
\* status is failed.
HookRecordsFailure ==
  \A jobId \in JobIds :
    ex[jobId].pc = "failed" =>
      jobId \in DOMAIN Jobs /\ Jobs[jobId].status = "failed"

\* C17: every failure after submission is recorded in the record: when
\* processDownloadJob has thrown, the job's record is there for a status read
\* and eventually has status failed.
FailureRecordedInBand ==
  \A jobId \in 1..PairJobs :
    /\ [](ex[jobId].pc \in {"thrown", "failed"} => ~IsNull(getJobStatus(stores, jobId)))
    /\ (ex[jobId].pc = "thrown") ~>
          (jobId \in DOMAIN Jobs /\ Jobs[jobId].status = "failed")

\* C18: the record write and the enqueue are two steps in that order and
\* nothing compensates: a work item is only ever queued for a stored record;
\* when the enqueue fails the submission is answered with an error, store and
\* queue stay as they are, and from then on the record stays the queued record,
\* no work item or execution for it exists and no step changes or removes it.
QueuedFor(jobId) == {i \in 1..Len(queue) : queue[i].jobId = jobId}

Orphan(jobId) ==
  /\ jobId \in DOMAIN Jobs
  /\ Jobs[jobId].status = "queued"
  /\ QueuedFor(jobId) = {}
  /\ ex[jobId].pc = "idle"

EnqueueFailureOrphans ==
  /\ [](\A jobId \in JobIds :
          /\ QueuedFor(jobId) # {} => jobId \in DOMAIN Jobs
          /\ sub[jobId].pc = "failed" => Orphan(jobId))
  /\ [][\A jobId \in JobIds :
          /\ (sub[jobId].pc = "written" /\ sub'[jobId].pc = "failed")
               => /\ resp'.op = "submit" /\ resp'.code = 500
                  /\ UNCHANGED <<stores, queue>>
          /\ sub[jobId].pc = "failed"
               => /\ sub'[jobId].pc = "failed"
                  /\ Kept(jobId) /\ Jobs'[jobId] = Jobs[jobId]]_vars

EnqueueFailureOrphansWitness ==
  \E jobId \in JobIds : \E other \in DOMAIN Jobs :
    /\ sub[jobId].pc = "failed"
    /\ Orphan(jobId)
    /\ other > jobId
    /\ Terminal(Jobs[other])

WorkUnits(jobId) ==
  Cardinality(QueuedFor(jobId)) + (IF ex[jobId].pc = "idle" THEN 0 ELSE 1)

OneRecordOneItem ==
  /\ [](/\ DOMAIN Jobs = 1..nextId
        /\ Len(queue) + Cardinality({j \in JobIds : ex[j].pc # "idle"}) <= nextId
        /\ \A jobId \in 1..nextId :
             /\ Jobs[jobId].file_id = sub[jobId].fileId
             /\ WorkUnits(jobId) <= 1
             /\ Submitted(jobId) => WorkUnits(jobId) = 1
             /\ \A i \in QueuedFor(jobId) : queue[i].fileId = sub[jobId].fileId
             /\ ex[jobId].pc \notin {"idle", "done"} => ex[jobId].fileId = sub[jobId].fileId
        /\ (resp.op = "submit" /\ resp.code = 200)
             => resp.total = sub[resp.jobId].total)
  /\ [][\A file_ids \in Batches :
          Initiate(file_ids) =>
            /\ DOMAIN Jobs' = DOMAIN Jobs \cup {nextId'}
            /\ Jobs'[nextId'].file_id = file_ids[1].n
            /\ sub'[nextId'].fileId = file_ids[1].n
            /\ sub'[nextId'].total = Len(file_ids)]_vars

OneRecordOneItemWitness ==
  /\ resp.op = "submit"
  /\ resp.code = 200
  /\ resp.total = 2
  /\ redis
  /\ Jobs[resp.jobId].file_id = 70000
  /\ Cardinality(QueuedFor(resp.jobId)) = 1
  /\ Len(queue) = 1

\* C21: a record gets one terminal write and is written by one execution, also
\* when its work item is delivered again: on a record that is completed or
\* failed no processing write and no further terminal write lands.
SingleTerminalWrite ==
  [][\A jobId \in JobIds :
       (jobId \in DOMAIN Jobs /\ Terminal(Jobs[jobId]))
         => ~WriteProcessing(jobId) /\ ~WriteTerminal(jobId)]_vars

\* C22: a negative probe is final: the execution goes from the probe straight
\* to the terminal write without calling generatePresignedUrl or the probe
\* again, the write stores failed, progress 100 and a null downloadUrl, and
\* processDownloadJob returns.
Negative(jobId) == ex[jobId].pc \in {"readC", "write"} /\ ~ex[jobId].available

NegativeProbeFinal ==
  /\ [](\A jobId \in JobIds : Negative(jobId) => IsNull(ex[jobId].downloadUrl))
  /\ [][\A jobId \in JobIds :
          /\ (ex[jobId].pc = "probe" /\ ex'[jobId].pc # "probe" /\ ~ex'[jobId].available)
               => ex'[jobId].pc = "readC"
          /\ Negative(jobId) => ex'[jobId].pc \in {"readC", "write", "done"}
          /\ (Negative(jobId) /\ WriteTerminal(jobId))
               => /\ Jobs'[jobId].status = "failed"
                  /\ Jobs'[jobId].progress = 100
                  /\ IsNull(Jobs'[jobId].downloadUrl)
                  /\ ex'[jobId].pc = "done"]_vars

NegativeProbeFinalWitness ==
  \E jobId \in DOMAIN Jobs :
    /\ bucket
    /\ Jobs[jobId].file_id % 7 = 0
    /\ Jobs[jobId].status = "failed"
    /\ ex[jobId].pc = "done"

\* C23: a failed URL issuance gives a null URL and does not fail the job: after
\* a positive probe generatePresignedUrl always returns (a URL or null), and the
\* terminal write stores completed, progress 100 and the URL it returned, null
\* included.
Positive(jobId) == ex[jobId].available /\ ~IsNull(ex[jobId].s3Key)

IssuanceFailureCompletes ==
  [][\A jobId \in JobIds :
       /\ (ex[jobId].pc = "issue" /\ ex'[jobId].pc # "issue")
            => ex'[jobId].pc = "readC"
       /\ (WriteTerminal(jobId) /\ Positive(jobId))
            => /\ Jobs'[jobId].status = "completed"
               /\ Jobs'[jobId].progress = 100
               /\ Jobs'[jobId].downloadUrl = ex[jobId].downloadUrl]_vars

IssuanceFailureCompletesWitness ==
  \E jobId \in DOMAIN Jobs :
    /\ bucket
    /\ Jobs[jobId].status = "completed"
    /\ Jobs[jobId].progress = 100
    /\ IsNull(Jobs[jobId].downloadUrl)

\* C24: the probe never raises and fails closed: for every identifier it
\* returns a value; when it reports the file available the key is the
\* identifier's key downloads/<id>.zip; every other outcome (not found, any
\* failed access) is exactly {available: false, s3Key: null, size: null}.
ProbeIds ==
  UNION {{file_ids[i].n : i \in 1..Min(Len(file_ids), 2)} : file_ids \in Batches}

FailClosed(fileId, r) ==
  /\ r.available => r.s3Key = Some(<<"downloads/">> \o Digits(Abs(fileId)) \o <<".zip">>)
  /\ ~r.available => IsNull(r.s3Key) /\ IsNull(r.size)

ProberFailClosed ==
  /\ \A fileId \in ProbeIds :
       /\ checkS3Availability(fileId) # {}
       /\ \A r \in checkS3Availability(fileId) : FailClosed(fileId, r)
  /\ \A jobId \in JobIds :
       ex[jobId].pc \in {"issue", "readC", "write"}
         => FailClosed(ex[jobId].fileId, ex[jobId])

ProberFailClosedWitness ==
  \E jobId \in JobIds :
    /\ bucket
    /\ ex[jobId].pc = "readC"
    /\ ex[jobId].fileId % 7 = 0
    /\ ~ex[jobId].available
    /\ IsNull(ex[jobId].s3Key)

\* C25: a job's interval is cleared before its terminal write is issued: the
\* interval is live only while the job body sleeps, a callback of it starts only
\* while it is live, and from the probe on (terminal write included) the job has
\* no live interval.
TimerCancelled ==
  /\ [](\A jobId \in JobIds : ex[jobId].interval => ex[jobId].pc = "sleeping")
  /\ [][\A jobId \in JobIds :
          ex'[jobId].nticks > ex[jobId].nticks => ex[jobId].interval]_vars

TimerCancelledWitness ==
  \E jobId \in JobIds :
    /\ ex[jobId].pc = "write"
    /\ ~ex[jobId].interval
    /\ InFlight(jobId) # {}

\* C26: in either backend a record is gone once 24 hours have passed since its
\* last write, so that a status read answers 200 only with a record written
\* less than 24 hours ago; and a record leaves the store only by the passing of
\* time, never by a step of a handler, a worker or a callback.
Fresh(rec) == now < rec.updatedAt + 86400 * 1000

RecordsEvicted ==
  /\ [](/\ \A jobId \in DOMAIN Jobs : Fresh(Jobs[jobId])
        /\ (resp.op = "status" /\ resp.code = 200) => Fresh(Val(resp.body)))
  /\ [][\A jobId \in DOMAIN Jobs : jobId \notin DOMAIN Jobs' => now' > now]_vars

\* C27: shutdown closes in a fixed order: the HTTP server first (no submission
\* is taken once shutdown has begun), then the worker, the queue, the store
\* connection, telemetry and the object-store client; when closing the worker,
\* the queue or the store connection fails, telemetry is still shut down next
\* and the object-store client is still released.
ShutdownSequence == <<"server", "worker", "queue", "store", "otel", "s3">>

Place(x) == CHOOSE i \in 1..Len(ShutdownSequence) : ShutdownSequence[i] = x

ShutdownOrder ==
  /\ [](/\ \A i, k \in 1..Len(down.closed) :
             i < k => Place(down.closed[i]) < Place(down.closed[k])
        /\ (down.closed # <<>>) => (down.closed[1] = "server")
        /\ (down.pc = "otel") => (ENABLED ShutdownOtel(TRUE) /\ ENABLED ShutdownOtel(FALSE))
        /\ (down.pc = "s3") => (ENABLED DestroyS3)
        /\ (down.pc = "completed") =>
             (Closed("s3") /\ (Closed("otel") \/ "otel" \in down.failed)))
  /\ [][/\ (nextId' # nextId) => (down.pc = "running")
        /\ ((down'.failed \ down.failed) \cap {"worker", "queue", "store"} # {})
             => (down'.pc = "otel")]_vars

ShutdownOrderWitness ==
  /\ down.pc = "completed"
  /\ down.closed = <<"server", "worker", "otel", "s3">>
  /\ down.failed = {"queue"}

\* C28 as stated: for every delay setting, the switch being off included, the
\* processingTimeMs of a stored completed or failed record is at least the
\* configured minimum delay.
TimeAtLeastMin ==
  \A jobId \in DOMAIN Jobs :
    Terminal(Jobs[jobId]) =>
      Val(Jobs[jobId].processingTimeMs) >= env.DOWNLOAD_DELAY_MIN_MS

\* C28 as amended: the measured time is at least the delay the execution drew;
\* that delay is at least the configured minimum (and at most the maximum) when
\* the switch is on and min <= max; with the switch off the delay is 0 and the
\* time is only what the job's own steps took, which may be below the minimum.
TimeAtLeastDelay ==
  /\ \A jobId \in JobIds :
       ex[jobId].pc \in {"issue", "readC", "write"} =>
         /\ ex[jobId].ptime >= ex[jobId].delayMs
         /\ ~env.DOWNLOAD_DELAY_ENABLED => ex[jobId].delayMs = 0
         /\ (env.DOWNLOAD_DELAY_ENABLED
               /\ env.DOWNLOAD_DELAY_MIN_MS <= env.DOWNLOAD_DELAY_MAX_MS)
              => /\ ex[jobId].delayMs >= env.DOWNLOAD_DELAY_MIN_MS
                 /\ ex[jobId].delayMs <= env.DOWNLOAD_DELAY_MAX_MS
  /\ \A jobId \in DOMAIN Jobs :
       (/\ Terminal(Jobs[jobId])
        /\ env.DOWNLOAD_DELAY_ENABLED
        /\ env.DOWNLOAD_DELAY_MIN_MS <= env.DOWNLOAD_DELAY_MAX_MS)
         => Val(Jobs[jobId].processingTimeMs) >= env.DOWNLOAD_DELAY_MIN_MS

TimeAtLeastDelayWitness ==
  \E jobId \in DOMAIN Jobs :
    /\ Terminal(Jobs[jobId])
    /\ env.DOWNLOAD_DELAY_ENABLED
    /\ env.DOWNLOAD_DELAY_MIN_MS <= env.DOWNLOAD_DELAY_MAX_MS
    /\ Val(Jobs[jobId].processingTimeMs) = 2

\* C29: updatedAt never decreases from one stored version of a job's record to
\* the next, tick writes that land late included.
UpdatedAtMonotonic ==
  [][\A jobId \in JobIds :
       Kept(jobId) => Jobs'[jobId].updatedAt >= Jobs[jobId].updatedAt]_vars

\* C30: one execution takes its steps in this order: the processing record with
\* progress 0 is written before the interval can fire; the probe is called
\* after the delay, with the interval cleared; generatePresignedUrl is called
\* exactly after a positive probe with a key, before the terminal write; the
\* terminal write ends the execution, and after it only an interval callback
\* still in flight writes the job's record.
Steps ==
  { <<"idle", "start">>, <<"idle", "sleeping">>, <<"start", "sleeping">>,
    <<"sleeping", "probe">>, <<"probe", "issue">>, <<"probe", "readC">>,
    <<"issue", "readC">>, <<"readC", "write">>, <<"write", "done">> }

StepOrder ==
  /\ [](\A jobId \in JobIds :
          (ex[jobId].interval \/ ex[jobId].nticks > 0) =>
            (jobId \in DOMAIN Jobs /\ ex[jobId].pc = "sleeping"))
  /\ [][\A jobId \in JobIds :
          /\ (ex[jobId].pc # ex'[jobId].pc) =>
               /\ <<ex[jobId].pc, ex'[jobId].pc>> \in Steps
               /\ (ex'[jobId].pc = "sleeping") =>
                    /\ Jobs'[jobId].status = "processing"
                    /\ Jobs'[jobId].progress = 0
                    /\ ex'[jobId].nticks = 0
                    /\ InFlight(jobId) = {}
               /\ (ex'[jobId].pc = "probe") => ~ex'[jobId].interval
               /\ (ex'[jobId].pc = "issue") =>
                    (ex'[jobId].available /\ ~IsNull(ex'[jobId].s3Key))
               /\ (ex[jobId].pc = "probe" /\ ex'[jobId].pc = "readC") =>
                    ~(ex'[jobId].available /\ ~IsNull(ex'[jobId].s3Key))
               /\ (ex'[jobId].pc = "done") => Terminal(Jobs'[jobId])
          /\ (ex[jobId].pc = "done" /\ Kept(jobId) /\ Jobs'[jobId] # Jobs[jobId]) =>
               (\E t \in InFlight(jobId) : TickWrite(t))]_vars

StepOrderWitness ==
  \E jobId \in JobIds :
    /\ ex[jobId].pc = "write"
    /\ ex[jobId].available
    /\ ~IsNull(ex[jobId].downloadUrl)
    /\ Jobs[jobId].progress = 10

\* C31: an interval callback issues a write only for a record it read as
\* processing, so it never creates a record; the k-th firing carries progress
\* min(10 * k, 90), whether or not earlier callbacks wrote; and the interval
\* fires at most 10 times before it is cleared.
TickGuarded ==
  /\ [](\A jobId \in JobIds :
          /\ ex[jobId].nticks <= IntervalDivisor
          /\ ex[jobId].progress = Min(ProgressStep * ex[jobId].nticks, ProgressCap))
  /\ [](\A t \in ticks :
          /\ \E k \in 1..IntervalDivisor : t.progress = Min(ProgressStep * k, ProgressCap)
          /\ (t.phase = "write") =>
               /\ Val(t.rec).status = "processing"
               /\ Val(t.rec).progress = t.progress)
  /\ [][/\ \A t \in ticks :
            (TickRead(t) \/ TickWrite(t)) => DOMAIN Jobs' = DOMAIN Jobs
        /\ \A jobId \in JobIds :
            (ex'[jobId].nticks = ex[jobId].nticks + 1) =>
              /\ DOMAIN Jobs' = DOMAIN Jobs
              /\ redis =>
                   /\ stores' = stores
                   /\ \E t \in ticks' \ ticks :
                        t.phase = "read" /\ t.progress = ex'[jobId].progress
              /\ (~redis /\ jobId \in DOMAIN Jobs) =>
                   Jobs'[jobId] =
                     IF Jobs[jobId].status = "processing"
                       THEN TickRecord(Jobs[jobId], ex'[jobId].progress, now)
                       ELSE Jobs[jobId]]_vars

TickGuardedWitness ==
  \E jobId \in JobIds :
    /\ ex[jobId].nticks = IntervalDivisor
    /\ jobId \in DOMAIN Jobs
    /\ Jobs[jobId].progress = ProgressCap

\* C32: the record an interval callback writes is the snapshot it read with
\* progress and updatedAt replaced and every other field as in the snapshot;
\* the write replaces the whole stored record, so what another writer stored
\* between the callback's read and its write is lost.
SnapshotFields ==
  {"file_id", "status", "downloadUrl", "size", "processingTimeMs", "message", "createdAt"}

TickOverwrites ==
  [][/\ \A t \in ticks' \ ticks :
         (t.phase = "write") =>
           /\ t.jobId \in DOMAIN Jobs
           /\ \A f \in SnapshotFields : Val(t.rec)[f] = Jobs[t.jobId][f]
           /\ Val(t.rec).progress = t.progress
           /\ Val(t.rec).updatedAt = now
     /\ \A t \in ticks \ ticks' :
         (t.phase = "write") =>
           /\ t.jobId \in DOMAIN Jobs'
           /\ Jobs'[t.jobId] = Val(t.rec)
     /\ \A jobId \in JobIds :
         (~redis /\ ex'[jobId].nticks = ex[jobId].nticks + 1 /\ Jobs' # Jobs) =>
           /\ \A f \in SnapshotFields : Jobs'[jobId][f] = Jobs[jobId][f]
           /\ Jobs'[jobId].progress = ex'[jobId].progress
           /\ Jobs'[jobId].updatedAt = now]_vars

TickOverwritesWitness ==
  \E jobId \in JobIds :
    /\ ex[jobId].pc = "done"
    /\ InFlight(jobId) = {}
    /\ jobId \in DOMAIN Jobs
    /\ Jobs[jobId].status = "processing"
    /\ Jobs[jobId].progress = ProgressStep
    /\ Jobs[jobId].updatedAt < now

\* C33: a step of one job's submission, execution or interval callbacks leaves
\* the record of every other job as it was, whatever else runs at the time,
\* and the file_id of a stored record never changes.
StepOf(jobId) ==
  \/ sub'[jobId] # sub[jobId]
  \/ ex'[jobId] # ex[jobId]
  \/ {t \in ticks' : t.jobId = jobId} # InFlight(jobId)

JobsIsolated ==
  [][/\ \A a \in JobIds : \A b \in JobIds \ {a} :
          StepOf(a) =>
            /\ (b \in DOMAIN Jobs') = (b \in DOMAIN Jobs)
            /\ (b \in DOMAIN Jobs) => (Jobs'[b] = Jobs[b])
     /\ (Jobs' # Jobs) => (\E a \in JobIds : StepOf(a))
     /\ \A jobId \in JobIds :
          Kept(jobId) => (Jobs'[jobId].file_id = Jobs[jobId].file_id)]_vars

JobsIsolatedWitness ==
  \E a \in JobIds : \E b \in JobIds \ {a} :
    /\ a \in DOMAIN Jobs
    /\ b \in DOMAIN Jobs
    /\ Jobs[a].file_id # Jobs[b].file_id
    /\ Terminal(Jobs[a])
    /\ ex[b].pc = "sleeping"
    /\ Jobs[b].status = "processing"
    /\ Jobs[b].progress = ProgressStep

\* C34: without Redis the record is already processing with progress 0 when
\* the submit response is produced, and no status read answers queued.
FallbackStartsBeforeResponse ==
  ~redis =>
    /\ (resp.op = "submit" /\ resp.code = 200) =>
         /\ resp.jobId \in DOMAIN Jobs
         /\ Jobs[resp.jobId].status = "processing"
         /\ Jobs[resp.jobId].progress = 0
         /\ Val(resp.body).status = "queued"
    /\ (resp.op = "status" /\ resp.code = 200) =>
         Val(resp.body).status # "queued"
    /\ \A jobId \in DOMAIN Jobs :
         (sub[jobId].pc = "responded") => (Jobs[jobId].status # "queued")

FallbackStartsBeforeResponseWitness ==
  /\ ~redis
  /\ resp.op = "status"
  /\ resp.code = 200
  /\ sub[resp.jobId].pc = "responded"
  /\ Val(resp.body).status = "processing"
  /\ Val(resp.body).progress = 0

\* C35: without Redis too, at most `concurrency` stored records have status
\* processing at any time; the other jobs are queued.
FallbackCeiling == ~redis => Cardinality(Processing) <= Concurrency

\* C36: the component polls only jobs it holds as queued or processing, and
\* only while there is one; a job it holds as completed or failed is in no
\* later poll and keeps that status.
ClientStopsPolling ==
  [][/\ \A p \in ui.polls' \ ui.polls :
          (p.updates = <<>>) =>
            /\ p.queryKey # {}
            /\ \A jobId \in p.queryKey : ui.jobs[jobId] \in {"queued", "processing"}
     /\ \A jobId \in DOMAIN ui.jobs :
          (ui.jobs[jobId] \in {"completed", "failed"}) =>
            (ui'.jobs[jobId] = ui.jobs[jobId])]_vars

\* C37: in both backends a read that follows a write of record R under a
\* jobId returns exactly R, whatever was stored under it before, other jobs'
\* records are as they were, and a jobId never written reads as absent.
Writable ==
  {QueuedRecord(70000, now), ProcessingRecord(70001, now),
   CompletedRecord(70000, Null, Some(MockSize), 0, 0, now),
   FailedRecord(70001, 0, 0, now)} \cup
  {Val(ex[jobId].pending) : jobId \in {j \in JobIds : ~IsNull(ex[j].pending)}} \cup
  {Val(t.rec) : t \in {u \in ticks : ~IsNull(u.rec)}}

RECURSIVE Decimal(_)
Decimal(digits) ==
  IF digits = <<>>
    THEN 0
    ELSE 10 * Decimal(SubSeq(digits, 1, Len(digits) - 1)) + digits[Len(digits)]

Templated(fileId, key) ==
  LET digits == SubSeq(key, 2, Len(key) - 1)
  IN /\ Len(key) >= 3
     /\ key[1] = "downloads/"
     /\ key[Len(key)] = ".zip"
     /\ \A i \in 1..Len(digits) : digits[i] \in 0..9
     /\ digits[1] # 0
     /\ Decimal(digits) = fileId

KeyTemplate ==
  /\ \A fileId \in KeyIds : Templated(fileId, sanitizeS3Key(fileId))
  /\ \A a \in KeyIds : \A b \in KeyIds :
       (sanitizeS3Key(a) = sanitizeS3Key(b)) => (a = b)
  /\ \A jobId \in JobIds :
       ~IsNull(ex[jobId].s3Key) => Templated(ex[jobId].fileId, Val(ex[jobId].s3Key))

KeyTemplateWitness ==
  \E jobId \in JobIds :
    /\ ex[jobId].fileId = MaxFileId
    /\ ex[jobId].pc = "issue"
    /\ ~IsNull(ex[jobId].s3Key)
    /\ Len(Val(ex[jobId].s3Key)) = 11

====
